---- MODULE Spec2Model ----
(***************************************************************************)
(* Expense tracker: the FastAPI service of backend.py over one SQLite      *)
(* table, and the Streamlit dashboard of frontend.py that calls it.        *)
(*                                                                         *)
(* Text values that the ordering of the program depends on (the date) are  *)
(* sequences of character codes, compared as SQLite's BINARY collation     *)
(* compares TEXT.  An Optional[str] field is None (<<>>) or Str(s) (<<s>>).*)
(* Amounts are counted in hundredths, so 0.01 is 1.                        *)
(***************************************************************************)
EXTENDS Integers, Sequences, FiniteSets, TLC

VARIABLES
    rows,      \* the expenses table: a set of rows, each with its id
    seq,       \* sqlite_sequence: the largest id AUTOINCREMENT ever gave out
    resp,      \* the HTTP exchange awaiting its caller, or NoResponse
    created,   \* history: the ids returned by successful creates, in order
    deleted,   \* history: the ids whose delete reported success
    conn,      \* concurrent requests: each one's own connection and place
    lock,      \* the connection holding the database file's write lock
    pc,        \* the dashboard script: the statement it is at, or idle
    event,     \* the widget whose use started this run of the script
    filter,    \* the sidebar's <<start_date, end_date>>
    ui,        \* the messages this run has put on the page
    exception, \* the call whose exception ended this run, or "none"
    categories,     \* what get_categories returned to the form
    expenses_data,  \* what get_expenses_api returned to tab2
    summary_data,   \* what get_summary_api returned to tab3
    sent       \* history: the create requests the dashboard has sent

apiVars == <<rows, seq, resp, created, deleted>>
workerVars == <<conn, lock>>
clientVars ==
    <<pc, event, filter, ui, exception, categories, expenses_data,
      summary_data, sent>>
otherVars == <<workerVars, clientVars>>
vars == <<apiVars, workerVars, clientVars>>

\* ------------------------------------------------------------------ bounds

MaxCreates == 3
MaxRows == 3
MaxRoundTrips == 2
MaxConcurrentCreates == 2
MaxClientRows == 2

\* ------------------------------------------------------------------ values

None == << >>
Str(s) == <<s>>

NoResponse == [op |-> "none"]

DEFAULT_CATEGORIES ==
    <<"Food", "Transportation", "Utilities", "Personal Care",
      "Entertainment", "Health", "Other">>

\* The strings "1", "10" and "2": the server checks no date format.
Dates == { <<1>>, <<1, 0>>, <<2>> }

Range(s) == {s[i] : i \in DOMAIN s}

Min(S) == CHOOSE x \in S : \A y \in S : x <= y
Max(S) == CHOOSE x \in S : \A y \in S : x >= y

\* a <= b for TEXT under the BINARY collation (memcmp, then length).
StrLE(a, b) ==
    LET n == IF Len(a) < Len(b) THEN Len(a) ELSE Len(b)
        diff == {i \in 1..n : a[i] # b[i]}
    IN  IF diff = {} THEN Len(a) <= Len(b) ELSE a[Min(diff)] < b[Min(diff)]

\* ------------------------------------------------------------------ models

\* Mutant: Optional[str] = None, the usual default of an optional field.
ExpenseCreateNoneDefaults(body) ==
    [date        |-> body.date,
     amount      |-> body.amount,
     category    |-> body.category,
     subcategory |-> IF "subcategory" \in DOMAIN body THEN body.subcategory ELSE None,
     note        |-> IF "note" \in DOMAIN body THEN body.note ELSE None]

\* ExpenseCreate: the request body parsed; omitted optionals default to "".
ExpenseCreate(body) ==
    [date        |-> body.date,
     amount      |-> body.amount,
     category    |-> body.category,
     subcategory |-> IF "subcategory" \in DOMAIN body THEN body.subcategory ELSE Str(""),
     note        |-> IF "note" \in DOMAIN body THEN body.note ELSE Str("")]

\* {**expense.dict(), "id": new_id}, and a row of the table.
WithId(expense, id) ==
    [id          |-> id,
     date        |-> expense.date,
     amount      |-> expense.amount,
     category    |-> expense.category,
     subcategory |-> expense.subcategory,
     note        |-> expense.note]

\* ------------------------------------------------------------------ storage

Ids(table) == {r.id : r \in table}

\* Mutant: INTEGER PRIMARY KEY without AUTOINCREMENT, which gives out the
\* largest id again once its row is deleted.
NextRowidReused(table, sequence) == Max(Ids(table) \cup {0}) + 1

\* INTEGER PRIMARY KEY AUTOINCREMENT: one more than the largest id ever used.
NextRowid(table, sequence) == Max(Ids(table) \cup {sequence}) + 1

\* INSERT INTO expenses(date, amount, category, subcategory, note) VALUES (?,?,?,?,?)
InsertRow(table, expense, id) == table \cup {WithId(expense, id)}

\* Mutant: the DELETE never committed.
DeleteRowsUncommitted(table, expense_id) == table

\* Mutant: WHERE id <= ?
DeleteRowsUpTo(table, expense_id) == {r \in table : r.id > expense_id}

\* DELETE FROM expenses WHERE id = ?
DeleteRows(table, expense_id) == {r \in table : r.id # expense_id}

\* cursor.rowcount after the DELETE
RowCount(table, expense_id) == Cardinality({r \in table : r.id = expense_id})


\* ------------------------------------------------------------------ queries

\* WHERE date BETWEEN ? AND ?
Between(d, start_date, end_date) == StrLE(start_date, d) /\ StrLE(d, end_date)

Selected(table, start_date, end_date) ==
    {r \in table : Between(r.date, start_date, end_date)}

\* Mutant: ORDER BY date DESC alone, equal dates in insertion order.
ListBeforeOldestFirst(a, b) ==
    IF a.date = b.date THEN a.id < b.id ELSE ~StrLE(a.date, b.date)

\* ORDER BY date DESC, id DESC: whether row a comes before row b.
ListBefore(a, b) ==
    IF a.date = b.date THEN a.id > b.id ELSE ~StrLE(a.date, b.date)

RECURSIVE OrderRows(_)
OrderRows(S) ==
    IF S = {} THEN << >>
    ELSE LET first == CHOOSE r \in S : \A o \in S \ {r} : ListBefore(r, o)
         IN  <<first>> \o OrderRows(S \ {first})

\* The rows list_expenses fetches, as the response body.
ListRows(table, start_date, end_date) ==
    OrderRows(Selected(table, start_date, end_date))

RECURSIVE SumAmount(_)
SumAmount(S) ==
    IF S = {} THEN 0
    ELSE LET r == CHOOSE x \in S : TRUE IN r.amount + SumAmount(S \ {r})

\* Mutant: every category of the table, those without a row in the range
\* with a total of zero.
GroupsZeroFilled(table, start_date, end_date) ==
    LET sel == Selected(table, start_date, end_date)
    IN  {[category |-> c, total |-> SumAmount({r \in sel : r.category = c})] :
            c \in {r.category : r \in table}}

\* SELECT category, SUM(amount) as total ... GROUP BY category
Groups(table, start_date, end_date) ==
    LET sel == Selected(table, start_date, end_date)
    IN  {[category |-> c, total |-> SumAmount({r \in sel : r.category = c})] :
            c \in {r.category : r \in sel}}

\* ORDER BY total DESC: every order the engine may give rows of equal total.
SummaryBodies(table, start_date, end_date) ==
    LET G == Groups(table, start_date, end_date)
        n == Cardinality(G)
    IN  {f \in [1..n -> G] :
            /\ \A i, j \in 1..n : i # j => f[i] # f[j]
            /\ \A i, j \in 1..n : i < j => f[i].total >= f[j].total}

\* ------------------------------------------------------------------ handlers

\* Mutant: the server checking the amount as the dashboard does.
InsertRaisesOnNonPositive(expense, storage_fails) ==
    storage_fails \/ expense.amount <= 0

\* Whether the try block of add_expense raises: only when the storage does.
InsertRaises(expense, storage_fails) == storage_fails

\* Mutant: the rowcount check left out.
DeleteAlwaysSucceeds(rowcount) == 200

\* rowcount == 0 raises HTTPException(404); otherwise the success report.
DeleteStatus(rowcount) == IF rowcount = 0 THEN 404 ELSE 200

read_root ==
    /\ resp = NoResponse
    /\ resp' = [op |-> "root", request |-> None, status |-> 200,
                body |-> [message |-> "Expense Tracker API is running"]]
    /\ UNCHANGED <<rows, seq, created, deleted>>

get_categories ==
    /\ resp = NoResponse
    /\ resp' = [op |-> "categories", request |-> None, status |-> 200,
                body |-> DEFAULT_CATEGORIES]
    /\ UNCHANGED <<rows, seq, created, deleted>>

add_expense(body, storage_fails) ==
    /\ resp = NoResponse
    /\ LET expense == ExpenseCreate(body)
           new_id == NextRowid(rows, seq)
       IN  IF InsertRaises(expense, storage_fails)
           THEN /\ resp' = [op |-> "create", request |-> body, status |-> 500,
                            storage_fails |-> storage_fails,
                            body |-> [detail |-> "error"]]
                /\ UNCHANGED <<rows, seq, created>>
           ELSE /\ rows' = InsertRow(rows, expense, new_id)
                /\ seq' = new_id
                /\ created' = Append(created, new_id)
                /\ resp' = [op |-> "create", request |-> body, status |-> 200,
                            storage_fails |-> storage_fails,
                            body |-> WithId(expense, new_id)]
    /\ UNCHANGED deleted

list_expenses(start_date, end_date) ==
    /\ resp = NoResponse
    /\ resp' = [op |-> "list", request |-> <<start_date, end_date>>, status |-> 200,
                body |-> ListRows(rows, start_date, end_date)]
    /\ UNCHANGED <<rows, seq, created, deleted>>

get_summary(start_date, end_date) ==
    /\ resp = NoResponse
    /\ \E b \in SummaryBodies(rows, start_date, end_date) :
          resp' = [op |-> "summary", request |-> <<start_date, end_date>>,
                   status |-> 200, body |-> b]
    /\ UNCHANGED <<rows, seq, created, deleted>>

delete_expense(expense_id) ==
    /\ resp = NoResponse
    /\ LET rowcount == RowCount(rows, expense_id)
           status == DeleteStatus(rowcount)
       IN  /\ rows' = DeleteRows(rows, expense_id)
           /\ resp' = [op |-> "delete", request |-> expense_id, status |-> status,
                       body |-> IF status = 200
                                THEN [message |-> "Expense deleted successfully"]
                                ELSE [detail |-> "Expense not found"]]
           /\ deleted' = IF status = 200 THEN deleted \cup {expense_id} ELSE deleted
    /\ UNCHANGED <<seq, created>>

\* The caller takes the response; the next request may follow.
Return ==
    /\ resp # NoResponse
    /\ resp' = NoResponse
    /\ UNCHANGED <<rows, seq, created, deleted>>

\* ------------------------------------------------------------------ concurrent handlers
\* FastAPI runs each request's handler on its own thread, and each handler
\* opens its own connection: the handlers of two requests interleave between
\* the statements of add_expense and of delete_expense.

Conns == {"a", "b"}
NoConn == "none"

IdleConn ==
    [pc |-> "idle", op |-> "none", request |-> None, cursor |-> 0, status |-> 0,
     existed |-> FALSE, peers |-> {}]

InFlight == {c \in Conns : conn[c].pc \in {"received", "locked"}}

\* Mutant: a store that lets two writers in at once.
WriterNeverWaits(c) == TRUE

\* sqlite3.connect(DB_PATH): a connection's first write takes the file's
\* write lock, and waits while another connection holds it.
WriterMayProceed(c) == lock = NoConn

\* A request reaches its handler.
Receive(c, op, request) ==
    /\ conn[c].pc = "idle"
    /\ conn' = [d \in Conns |->
                   IF d = c
                   THEN [pc |-> "received", op |-> op, request |-> request,
                         cursor |-> 0, status |-> 0,
                         existed |-> (op = "delete" /\ request \in Ids(rows)),
                         peers |-> InFlight]
                   ELSE IF d \in InFlight
                        THEN [conn[d] EXCEPT !.peers = @ \cup {c}]
                        ELSE conn[d]]
    /\ UNCHANGED <<rows, seq, resp, created, deleted, lock>>

\* add_expense up to cursor.execute: the INSERT, in this connection's
\* transaction, or the exception that ends the request.
add_expense_execute(c, storage_fails) ==
    /\ conn[c].pc = "received" /\ conn[c].op = "create"
    /\ IF InsertRaises(ExpenseCreate(conn[c].request), storage_fails)
       THEN /\ conn' = [conn EXCEPT ![c].pc = "answered", ![c].status = 500]
            /\ UNCHANGED lock
       ELSE /\ WriterMayProceed(c)
            /\ lock' = c
            /\ conn' = [conn EXCEPT ![c].pc = "locked",
                                    ![c].cursor = NextRowid(rows, seq)]
    /\ UNCHANGED <<rows, seq, resp, created, deleted>>

\* add_expense from conn.commit(): the row is stored, lastrowid is answered.
add_expense_commit(c) ==
    /\ conn[c].pc = "locked" /\ conn[c].op = "create"
    /\ rows' = InsertRow(rows, ExpenseCreate(conn[c].request), conn[c].cursor)
    /\ seq' = conn[c].cursor
    /\ created' = Append(created, conn[c].cursor)
    /\ lock' = NoConn
    /\ conn' = [conn EXCEPT ![c].pc = "answered", ![c].status = 200]
    /\ UNCHANGED <<resp, deleted>>

\* delete_expense up to cursor.execute: the DELETE, in this connection's
\* transaction, with its rowcount.
delete_expense_execute(c) ==
    /\ conn[c].pc = "received" /\ conn[c].op = "delete"
    /\ WriterMayProceed(c)
    /\ lock' = c
    /\ conn' = [conn EXCEPT ![c].pc = "locked",
                            ![c].cursor = RowCount(rows, conn[c].request)]
    /\ UNCHANGED <<rows, seq, resp, created, deleted>>

\* delete_expense from conn.commit(): the rows are gone, then rowcount decides.
delete_expense_commit(c) ==
    /\ conn[c].pc = "locked" /\ conn[c].op = "delete"
    /\ rows' = DeleteRows(rows, conn[c].request)
    /\ lock' = NoConn
    /\ conn' = [conn EXCEPT ![c].pc = "answered",
                            ![c].status = DeleteStatus(conn[c].cursor)]
    /\ deleted' = IF DeleteStatus(conn[c].cursor) = 200
                  THEN deleted \cup {conn[c].request} ELSE deleted
    /\ UNCHANGED <<seq, resp, created>>

\* The response leaves; the thread is free for the next request.
Close(c) ==
    /\ conn[c].pc = "answered"
    /\ conn' = [conn EXCEPT ![c] = IdleConn]
    /\ UNCHANGED <<rows, seq, resp, created, deleted, lock>>

\* ------------------------------------------------------------------ dashboard
\* frontend.py: Streamlit runs the script from its first line on every use
\* of a widget.  Each API call is a request the service answers, or a
\* connection that fails and makes requests raise.

\* date.today() and its first day of the month, as str() gives them.
Today == <<2>>
FirstDayOfMonth == <<1>>

\* st.number_input("Amount ($)", min_value=0.01): the least amount the
\* widget gives.
MinValue == 1
AmountInputs == {a \in 0..2 : a >= MinValue}

\* if amount > 0
AmountAccepted(amount) == amount > 0

\* The ranges the two sidebar date inputs are set to.
Filters == {<<FirstDayOfMonth, Today>>, <<Today, Today>>}

\* An exception no handler catches ends the run of the script.
Raise(call) ==
    /\ exception' = call
    /\ pc' = "idle"

\* A widget is used: the script runs again from the top.
Rerun(e, f) ==
    /\ pc = "idle"
    /\ e = "delete" => expenses_data # << >>
    /\ pc' = "categories"
    /\ event' = e
    /\ filter' = f
    /\ ui' = {}
    /\ exception' = "none"
    /\ categories' = << >>
    /\ expenses_data' = << >>
    /\ summary_data' = << >>
    /\ UNCHANGED <<apiVars, sent>>

\* get_categories(): the request, or the except branch.
get_categories_request(up) ==
    /\ pc = "categories"
    /\ IF up
       THEN /\ get_categories
            /\ pc' = "categories_response"
            /\ UNCHANGED <<ui, categories>>
       ELSE /\ ui' = ui \cup {"error: Could not connect to backend. Is FastAPI running?"}
            /\ categories' = <<"Others">>
            /\ pc' = "form"
            /\ UNCHANGED apiVars
    /\ UNCHANGED <<event, filter, exception, expenses_data, summary_data, sent>>

get_categories_response ==
    /\ pc = "categories_response"
    /\ categories' = IF resp.status = 200 THEN resp.body ELSE <<"Others">>
    /\ resp' = NoResponse
    /\ pc' = "form"
    /\ UNCHANGED <<rows, seq, created, deleted>>
    /\ UNCHANGED <<event, filter, ui, exception, expenses_data, summary_data, sent>>

\* The entry form: if submitted, the amount check, then add_expense_api(data).
entry_form(entry_date, amount, category, up, storage_fails) ==
    /\ pc = "form"
    /\ category \in Range(categories)
    /\ LET data == [date |-> entry_date, amount |-> amount, category |-> category,
                    subcategory |-> Str(""), note |-> Str("")]
       IN  IF event # "submit"
           THEN /\ pc' = "list"
                /\ UNCHANGED <<apiVars, ui, exception, sent>>
           ELSE IF ~AmountAccepted(amount)
           THEN /\ ui' = ui \cup {"warning: Amount must be greater than 0."}
                /\ pc' = "list"
                /\ UNCHANGED <<apiVars, exception, sent>>
           ELSE IF up
           THEN /\ add_expense(data, storage_fails)
                /\ sent' = sent \cup {data}
                /\ pc' = "add_response"
                /\ UNCHANGED <<ui, exception>>
           ELSE /\ Raise("add_expense_api")
                /\ UNCHANGED <<apiVars, ui, sent>>
    /\ UNCHANGED <<event, filter, categories, expenses_data, summary_data>>

add_expense_response ==
    /\ pc = "add_response"
    /\ ui' = ui \cup {IF resp.status = 200 THEN "success: Added"
                                           ELSE "error: Failed to add expense."}
    /\ resp' = NoResponse
    /\ pc' = "list"
    /\ UNCHANGED <<rows, seq, created, deleted>>
    /\ UNCHANGED <<event, filter, exception, categories, expenses_data,
                   summary_data, sent>>

\* tab2: get_expenses_api(start_date, end_date).
get_expenses_api(up) ==
    /\ pc = "list"
    /\ IF up
       THEN /\ list_expenses(filter[1], filter[2])
            /\ pc' = "list_response"
            /\ UNCHANGED exception
       ELSE /\ Raise("get_expenses_api")
            /\ UNCHANGED apiVars
    /\ UNCHANGED <<event, filter, ui, categories, expenses_data, summary_data, sent>>

\* tab2 with the listing: the table and the delete expander, or the note.
tab2 ==
    /\ pc = "list_response"
    /\ LET data == IF resp.status = 200 THEN resp.body ELSE << >>
       IN  /\ expenses_data' = data
           /\ IF data # << >>
              THEN /\ pc' = IF event = "delete" THEN "delete" ELSE "summary"
                   /\ UNCHANGED ui
              ELSE /\ pc' = "summary"
                   /\ ui' = ui \cup {"info: No expenses found for this date range."}
    /\ resp' = NoResponse
    /\ UNCHANGED <<rows, seq, created, deleted>>
    /\ UNCHANGED <<event, filter, exception, categories, summary_data, sent>>

\* The Delete Expense button: delete_expense_api(expense_id_to_delete).
delete_expense_api(expense_id, up) ==
    /\ pc = "delete"
    /\ IF up
       THEN /\ delete_expense(expense_id)
            /\ pc' = "delete_response"
            /\ UNCHANGED exception
       ELSE /\ Raise("delete_expense_api")
            /\ UNCHANGED apiVars
    /\ UNCHANGED <<event, filter, ui, categories, expenses_data, summary_data, sent>>

\* After the delete: st.rerun() on success, the error message otherwise.
delete_expense_response ==
    /\ pc = "delete_response"
    /\ IF resp.status = 200
       THEN /\ pc' = "categories"
            /\ event' = "none"
            /\ ui' = {}
            /\ categories' = << >>
            /\ expenses_data' = << >>
       ELSE /\ pc' = "summary"
            /\ ui' = ui \cup {"error: Could not delete expense. Check ID."}
            /\ UNCHANGED <<event, categories, expenses_data>>
    /\ resp' = NoResponse
    /\ UNCHANGED <<rows, seq, created, deleted>>
    /\ UNCHANGED <<filter, exception, summary_data, sent>>

\* tab3: get_summary_api(start_date, end_date).
get_summary_api(up) ==
    /\ pc = "summary"
    /\ IF up
       THEN /\ get_summary(filter[1], filter[2])
            /\ pc' = "summary_response"
            /\ UNCHANGED exception
       ELSE /\ Raise("get_summary_api")
            /\ UNCHANGED apiVars
    /\ UNCHANGED <<event, filter, ui, categories, expenses_data, summary_data, sent>>

\* tab3 with the summary: the metric and charts, or the note; the run ends.
tab3 ==
    /\ pc = "summary_response"
    /\ LET data == IF resp.status = 200 THEN resp.body ELSE << >>
       IN  /\ summary_data' = data
           /\ ui' = IF data # << >> THEN ui
                    ELSE ui \cup {"info: No data available for visualization."}
    /\ pc' = "idle"
    /\ resp' = NoResponse
    /\ UNCHANGED <<rows, seq, created, deleted>>
    /\ UNCHANGED <<event, filter, exception, categories, expenses_data, sent>>

\* ------------------------------------------------------------------ inputs

Categories == {"Food", "Other"}
Amounts == {0, 1}
OptionalTexts == {None, Str(""), Str("Uber")}

\* Request bodies with the required fields only.
RequiredBodies == [date : Dates, amount : Amounts, category : Categories]

LifecycleBodies == [date : Dates, amount : {1}, category : Categories]

\* Request bodies with each optional field omitted, null or given.
RoundTripBodies ==
    [date : Dates, amount : {1}, category : {"Food"}]
    \cup [date : Dates, amount : {1}, category : {"Food"},
          subcategory : OptionalTexts]
    \cup [date : Dates, amount : {1}, category : {"Food"},
          note : OptionalTexts]
    \cup [date : Dates, amount : {1}, category : {"Food"},
          subcategory : OptionalTexts, note : OptionalTexts]

\* Request bodies of a caller other than the dashboard.
DirectBodies == [date : {Today}, amount : {0}, category : {"Food"}]

\* What the user picks in the form.
FormCategories == {"Food", "Others"}

ConcurrentBodies == [date : {<<1>>}, amount : {1}, category : Categories]

\* ------------------------------------------------------------------ Spec
\* The API called by one caller at a time: every handler runs whole.

Init ==
    /\ rows = {}
    /\ seq = 0
    /\ resp = NoResponse
    /\ created = << >>
    /\ deleted = {}
    /\ conn = [c \in Conns |-> IdleConn]
    /\ lock = NoConn
    /\ pc = "idle"
    /\ event = "none"
    /\ filter = <<FirstDayOfMonth, Today>>
    /\ ui = {}
    /\ exception = "none"
    /\ categories = << >>
    /\ expenses_data = << >>
    /\ summary_data = << >>
    /\ sent = {}

Next ==
    \/ read_root /\ UNCHANGED otherVars
    \/ get_categories /\ UNCHANGED otherVars
    \/ \E body \in LifecycleBodies, storage_fails \in BOOLEAN :
          /\ Len(created) < MaxCreates
          /\ add_expense(body, storage_fails)
          /\ UNCHANGED otherVars
    \/ \E s, e \in Dates : list_expenses(s, e) /\ UNCHANGED otherVars
    \/ \E s, e \in Dates : get_summary(s, e) /\ UNCHANGED otherVars
    \/ \E expense_id \in 1..(seq + 1) :
          delete_expense(expense_id) /\ UNCHANGED otherVars
    \/ Return /\ UNCHANGED otherVars

Spec == Init /\ [][Next]_vars

\* ------------------------------------------------------------------ SpecQuery
\* The two range queries over every table of up to MaxRows rows.

NextQuery ==
    \/ \E body \in RequiredBodies, storage_fails \in BOOLEAN :
          /\ Cardinality(rows) < MaxRows
          /\ add_expense(body, storage_fails)
          /\ UNCHANGED otherVars
    \/ \E s, e \in Dates : list_expenses(s, e) /\ UNCHANGED otherVars
    \/ \E s, e \in Dates : get_summary(s, e) /\ UNCHANGED otherVars
    \/ Return /\ UNCHANGED otherVars

SpecQuery == Init /\ [][NextQuery]_vars

\* ------------------------------------------------------------------ SpecRoundTrip
\* Creates with every shape of request body, each followed by listings.

NextRoundTrip ==
    \/ \E body \in RoundTripBodies, storage_fails \in BOOLEAN :
          /\ Len(created) < MaxRoundTrips
          /\ add_expense(body, storage_fails)
          /\ UNCHANGED otherVars
    \/ \E s, e \in Dates : list_expenses(s, e) /\ UNCHANGED otherVars
    \/ Return /\ UNCHANGED otherVars

SpecRoundTrip == Init /\ [][NextRoundTrip]_vars

\* ------------------------------------------------------------------ SpecConcurrent
\* Two requests at a time, interleaved statement by statement.

CreatesReceived ==
    seq + Cardinality({c \in InFlight : conn[c].op = "create"})

NextConcurrent ==
    \/ \E c \in Conns, body \in ConcurrentBodies :
          /\ CreatesReceived < MaxConcurrentCreates
          /\ Receive(c, "create", body)
          /\ UNCHANGED clientVars
    \/ \E c \in Conns, expense_id \in 1..(seq + 1) :
          Receive(c, "delete", expense_id) /\ UNCHANGED clientVars
    \/ \E c \in Conns, storage_fails \in BOOLEAN :
          add_expense_execute(c, storage_fails) /\ UNCHANGED clientVars
    \/ \E c \in Conns : add_expense_commit(c) /\ UNCHANGED clientVars
    \/ \E c \in Conns : delete_expense_execute(c) /\ UNCHANGED clientVars
    \/ \E c \in Conns : delete_expense_commit(c) /\ UNCHANGED clientVars
    \/ \E c \in Conns : Close(c) /\ UNCHANGED clientVars

SpecConcurrent == Init /\ [][NextConcurrent]_vars

\* ------------------------------------------------------------------ SpecClient
\* The dashboard against the service, with another caller creating directly.

Awaiting ==
    pc \in {"categories_response", "add_response", "list_response",
            "delete_response", "summary_response"}

NextClient ==
    \/ \E e \in {"none", "submit", "delete"}, f \in Filters :
          /\ e = "submit" => seq < MaxClientRows
          /\ Rerun(e, f)
          /\ UNCHANGED workerVars
    \/ \E up \in BOOLEAN : get_categories_request(up) /\ UNCHANGED workerVars
    \/ get_categories_response /\ UNCHANGED workerVars
    \/ \E amount \in AmountInputs, category \in FormCategories,
          up \in BOOLEAN, storage_fails \in BOOLEAN :
          entry_form(Today, amount, category, up, storage_fails)
          /\ UNCHANGED workerVars
    \/ add_expense_response /\ UNCHANGED workerVars
    \/ \E up \in BOOLEAN : get_expenses_api(up) /\ UNCHANGED workerVars
    \/ tab2 /\ UNCHANGED workerVars
    \/ \E expense_id \in 0..(seq + 1), up \in BOOLEAN :
          delete_expense_api(expense_id, up) /\ UNCHANGED workerVars
    \/ delete_expense_response /\ UNCHANGED workerVars
    \/ \E up \in BOOLEAN : get_summary_api(up) /\ UNCHANGED workerVars
    \/ tab3 /\ UNCHANGED workerVars
    \/ \E body \in DirectBodies, storage_fails \in BOOLEAN :
          /\ seq < MaxClientRows
          /\ add_expense(body, storage_fails)
          /\ UNCHANGED otherVars
    \/ ~Awaiting /\ Return /\ UNCHANGED otherVars

SpecClient == Init /\ [][NextClient]_vars

\* ------------------------------------------------------------------ claims

\* A handler has just answered: the step from no response to one.
Answers(op) == resp = NoResponse /\ resp'.op = op

\* C1: every id a successful create returns is greater than the id of every
\* earlier create, so no id is given twice, not even after the row that held
\* it (the largest one included) was deleted.
C1_IdsStrictlyIncrease ==
    /\ \A i, j \in 1..Len(created) : i < j => created[i] < created[j]
    /\ (resp.op = "create" /\ resp.status = 200) =>
          /\ resp.body.id = created[Len(created)]
          /\ resp.body.id \notin deleted
          /\ Cardinality({r \in rows : r.id = resp.body.id}) = 1

\* A create answered after the row with the largest id so far was deleted.
C1_Witness ==
    /\ resp.op = "create" /\ resp.status = 200
    /\ Len(created) >= 2
    /\ created[Len(created) - 1] \in deleted

\* C2: list expenses returns exactly the stored rows whose date d has
\* start_date <= d <= end_date as strings, each once, by date descending and
\* by id descending among equal dates; with start_date = end_date, exactly
\* the rows of that date.
C2_ListExactAndOrdered ==
    resp.op = "list" =>
        LET L == resp.body
            s == resp.request[1]
            e == resp.request[2]
            inrange == {r \in rows : StrLE(s, r.date) /\ StrLE(r.date, e)}
        IN  /\ Range(L) = inrange
            /\ Len(L) = Cardinality(inrange)
            /\ \A i, j \in 1..Len(L) : i < j =>
                  \/ (L[i].date # L[j].date /\ StrLE(L[j].date, L[i].date))
                  \/ (L[i].date = L[j].date /\ L[i].id > L[j].id)
            /\ s = e => Range(L) = {r \in rows : r.date = s}

\* A listing with two rows of one date and a row left out of the range.
C2_Witness ==
    /\ resp.op = "list"
    /\ Len(resp.body) = 2
    /\ resp.body[1].date = resp.body[2].date
    /\ resp.request[1] = resp.request[2]
    /\ Cardinality(rows) = 3

\* C3: summarize returns one entry for each category with a row in the
\* range and none for any other, each total the sum of amount over the
\* rows of that category in the range, by total descending.
C3_SummaryExactAndOrdered ==
    resp.op = "summary" =>
        LET B == resp.body
            s == resp.request[1]
            e == resp.request[2]
            inrange == {r \in rows : StrLE(s, r.date) /\ StrLE(r.date, e)}
        IN  /\ {B[i].category : i \in 1..Len(B)} = {r.category : r \in inrange}
            /\ Len(B) = Cardinality({r.category : r \in inrange})
            /\ \A i \in 1..Len(B) :
                  B[i].total =
                      SumAmount({r \in inrange : r.category = B[i].category})
            /\ \A i, j \in 1..Len(B) : i < j => B[i].total >= B[j].total

\* A summary of one category out of range, and one in range whose total is
\* the sum of two rows.
C3_Witness ==
    /\ resp.op = "summary"
    /\ Len(resp.body) = 1
    /\ resp.body[1].total = 2
    /\ \E r \in rows : r.category # resp.body[1].category

\* C4: a delete whose id matches no row is answered not-found, never with a
\* success report, and leaves the table as it was.
C4_DeleteMissingIsNotFound ==
    [][(Answers("delete") /\ resp'.request \notin Ids(rows)) =>
          (resp'.status = 404 /\ rows' = rows)]_vars

\* A delete on the empty table, answered not-found.
C4_Witness ==
    /\ resp.op = "delete"
    /\ resp.status = 404
    /\ rows = {}
    /\ seq = 0

\* C5: once a delete of an id has succeeded, the id is in no later listing,
\* every other row stays as it was, and every later delete of the id is
\* answered not-found.
C5_DeletedStaysDeleted ==
    [][/\ (Answers("delete") /\ resp'.status = 200) =>
             /\ resp'.request \notin Ids(rows')
             /\ rows' = {r \in rows : r.id # resp'.request}
       /\ Answers("list") =>
             \A i \in 1..Len(resp'.body) : resp'.body[i].id \notin deleted
       /\ (Answers("delete") /\ resp'.request \in deleted) =>
             resp'.status = 404]_vars

\* A second delete of an id, answered not-found, with a later row stored.
C5_Witness ==
    /\ resp.op = "delete"
    /\ resp.status = 404
    /\ resp.request \in deleted
    /\ \E r \in rows : r.id > resp.request

\* C6: a successful create answers with the submitted values and the id,
\* the omitted subcategory and note as the empty string, and a listing that
\* follows at once over any range holding the date has that row.
C6_RoundTrip ==
    (resp.op = "create" /\ resp.status = 200) =>
        LET q == resp.request
            b == resp.body
        IN  /\ b.id = created[Len(created)]
            /\ b.date = q.date /\ b.amount = q.amount /\ b.category = q.category
            /\ b.subcategory =
                  IF "subcategory" \in DOMAIN q THEN q.subcategory ELSE Str("")
            /\ b.note = IF "note" \in DOMAIN q THEN q.note ELSE Str("")
            /\ \A s, e \in Dates :
                  (StrLE(s, q.date) /\ StrLE(q.date, e)) =>
                      b \in Range(ListRows(rows, s, e))

\* A create that omitted both optional fields, beside an earlier row.
C6_Witness ==
    /\ resp.op = "create" /\ resp.status = 200
    /\ DOMAIN resp.request = {"date", "amount", "category"}
    /\ Cardinality(rows) = 2

\* C9: a row enters the table only by a successful create, which adds that
\* one row under a new id; it leaves only by a delete of its own id; no row
\* changes while stored; reads and failed requests leave the table as it was.
C9_RecordLifecycle ==
    [][/\ rows' # rows =>
             \/ /\ Answers("create") /\ resp'.status = 200
                /\ resp'.body.id \notin Ids(rows)
                /\ rows' = rows \cup {resp'.body}
             \/ /\ Answers("delete") /\ resp'.status = 200
                /\ rows' = {r \in rows : r.id # resp'.request}
       /\ (resp'.op \in {"root", "categories", "list", "summary"}) => rows' = rows
       /\ (resp'.op \in {"create", "delete"} /\ resp'.status # 200) => rows' = rows]_vars

\* A successful delete that left another row in the table.
C9_Witness ==
    /\ resp.op = "delete"
    /\ resp.status = 200
    /\ rows # {}

\* Requests c and d were in their handlers at the same time, and both are
\* answered.
ConcurrentAnswered(c, d) ==
    /\ c # d
    /\ conn[c].pc = "answered" /\ conn[d].pc = "answered"
    /\ d \in conn[c].peers /\ c \in conn[d].peers

\* C10: of two concurrent deletes of one stored id, one succeeds and the
\* other is answered not-found; two concurrent creates that succeed are
\* given different ids, and both rows are stored.
C10_ConcurrentWritersSerialized ==
    \A c, d \in Conns : ConcurrentAnswered(c, d) =>
        /\ (/\ conn[c].op = "delete" /\ conn[d].op = "delete"
            /\ conn[c].request = conn[d].request
            /\ conn[c].existed /\ conn[d].existed) =>
               {conn[c].status, conn[d].status} = {200, 404}
        /\ (/\ conn[c].op = "create" /\ conn[d].op = "create"
            /\ conn[c].status = 200 /\ conn[d].status = 200) =>
               /\ conn[c].cursor # conn[d].cursor
               /\ Cardinality({r \in rows : r.id = conn[c].cursor}) = 1
               /\ \A x \in {c, d} :
                     WithId([date        |-> conn[x].request.date,
                             amount      |-> conn[x].request.amount,
                             category    |-> conn[x].request.category,
                             subcategory |-> Str(""),
                             note        |-> Str("")], conn[x].cursor) \in rows

\* Two concurrent deletes of one stored id, both answered.
C10_Witness ==
    /\ ConcurrentAnswered("a", "b")
    /\ conn["a"].op = "delete" /\ conn["b"].op = "delete"
    /\ conn["a"].request = conn["b"].request
    /\ conn["a"].existed /\ conn["b"].existed
    /\ conn["a"].status = 404


\* C7: in the dashboard a connection failure of any API call ends in an
\* error message on the page and a fallback value, never in an exception
\* that leaves the script.
C7_NetworkFailureNeverRaises ==
    /\ exception = "none"
    /\ categories = <<"Others">> =>
          "error: Could not connect to backend. Is FastAPI running?" \in ui

====
